---- MODULE Spec2Model ----
(***************************************************************************)
(* plot_cvr_distributions (src/experimentation_charts.py) as a state       *)
(* machine: one call is a linear run through the function body, cut at     *)
(* the places where it can raise or where it touches pyplot's process-wide *)
(* state (the registry of open figures and the current figure).            *)
(*                                                                         *)
(* Numbers are exact rationals <<numerator, denominator>>.  A denominator  *)
(* of 0 stands for the floating-point NaN that numpy produces for 0/0.     *)
(* A standard deviation is held as its square (the argument of np.sqrt):   *)
(* sqrt is strictly monotone on [0, oo) and maps 0 to 0, so the square     *)
(* determines the value and in particular whether it is 0.                 *)
(* Values returned by scipy's pdf/ppf are held by their kind: "finite",    *)
(* "inf", "-inf" or "nan".                                                 *)
(***************************************************************************)
EXTENDS Integers, Sequences, FiniteSets, TLC

\* ---------------------------------------------------------------- bounds
MaxLen == 3
MaxCalls == 2

\* ---------------------------------------------------------------- inputs
\* The function reads a sample only through len() and mean(), so samples are
\* taken up to the order of their outcomes: one array per length and number
\* of successes.
Samples ==
  {[i \in 1..n |-> IF i <= k THEN 1 ELSE 0] : n \in 0..MaxLen, k \in 0..MaxLen}
Alphas == {<<-1, 2>>, <<0, 1>>, <<1, 20>>, <<1, 1>>, <<3, 2>>}
Tails == {0, 1, 2, 3}

\* --------------------------------------------------------- exact numbers
NaN == <<0, 0>>
IsNaN(a) == a[2] = 0
RAdd(a, b) == <<a[1] * b[2] + b[1] * a[2], a[2] * b[2]>>
RSub(a, b) == <<a[1] * b[2] - b[1] * a[2], a[2] * b[2]>>
RMul(a, b) == <<a[1] * b[1], a[2] * b[2]>>
REq(a, b) == a[1] * b[2] = b[1] * a[2]
RLt(a, b) == a[1] * b[2] < b[1] * a[2]
One == <<1, 1>>
Zero == <<0, 1>>

RECURSIVE Sum(_)
Sum(s) == IF s = <<>> THEN 0 ELSE Head(s) + Sum(Tail(s))

VARIABLES
  pc,                  \* position of the running call, "idle" between calls
  control, experimental, alpha, tails,          \* the arguments of the call
  control_trials, experimental_trials,          \* lines 23-24
  control_cvr, experimental_cvr,                \* lines 27-28
  population_std, experimental_std,             \* lines 31-32 (as squares)
  ymax,                                         \* line 93
  fig,                 \* the figure plt.subplots returned to this call, 0 = none
  ops,                 \* the plotting calls this call has made, in order
  err,                 \* the exception the call raised, "none" if none
  figures,             \* every figure created so far, by figure number
  current,             \* pyplot's current figure, 0 = none
  ncalls               \* calls started so far

vars == <<pc, control, experimental, alpha, tails, control_trials,
          experimental_trials, control_cvr, experimental_cvr, population_std,
          experimental_std, ymax, fig, ops, err, figures, current, ncalls>>

args == <<control, experimental, alpha, tails>>
stats == <<control_trials, experimental_trials, control_cvr, experimental_cvr,
           population_std, experimental_std>>
pyplot == <<figures, current>>

\* ------------------------------------------------------ pure computations
\* ndarray.mean(): sum / size; for an empty array 0/0 = nan (a warning, no error)
mean(s) == <<Sum(s), Len(s)>>

\* variant: the division follows numpy's rules (1 / 0 is inf, with a warning)
ZeroDivisionNever(n) == FALSE

\* 1 / n on a Python int raises ZeroDivisionError when n == 0
ZeroDivision(n) == n = 0
Inv(n) == <<1, n>>

\* variant: the second factor takes the other arm's rate
population_var_mixed(nc, ne, cc, ce) ==
  RMul(RMul(RAdd(Inv(nc), Inv(ne)), cc), RSub(One, ce))

\* line 31: (1 / control_trials + 1 / experimental_trials) * control_cvr * (1 - control_cvr)
population_var(nc, ne, cc, ce) ==
  RMul(RMul(RAdd(Inv(nc), Inv(ne)), cc), RSub(One, cc))

\* variant: the experimental arm scaled by the combined sample-size factor
experimental_var_pooled(nc, ne, cc, ce) ==
  RMul(RMul(RAdd(Inv(nc), Inv(ne)), ce), RSub(One, ce))

\* line 32: 1 / experimental_trials * experimental_cvr * (1 - experimental_cvr)
experimental_var(nc, ne, cc, ce) ==
  RMul(RMul(Inv(ne), ce), RSub(One, ce))

\* stats.norm(loc, scale).pdf(x).max(): nan unless scale > 0
pdf_max(sd) == IF IsNaN(sd) \/ ~RLt(Zero, sd) THEN "nan" ELSE "finite"

\* variant: a quantile function that rejects a probability outside (0, 1)
ppf_strict(q, sd) ==
  IF ~(RLt(Zero, q) /\ RLt(q, One)) THEN "DomainError"
  ELSE IF IsNaN(sd) \/ ~RLt(Zero, sd) THEN "nan"
  ELSE "finite"

\* stats.norm(loc, scale).ppf(q): nan unless scale > 0 and 0 <= q <= 1;
\* -inf at q = 0, +inf at q = 1; it never raises
ppf(q, sd) ==
  IF IsNaN(sd) \/ ~RLt(Zero, sd) THEN "nan"
  ELSE IF RLt(q, Zero) \/ RLt(One, q) THEN "nan"
  ELSE IF REq(q, Zero) THEN "-inf"
  ELSE IF REq(q, One) THEN "inf"
  ELSE "finite"

\* variant: every tails value from 2 up is two-tailed
IsTwoTailedAtLeast(t) == t >= 2

\* line 50: if tails==2
IsTwoTailed(t) == t = 2

\* variant: truncation to 4 decimal places
round4_truncate(x) == (x[1] * 10000) \div x[2]

\* round(x, 4), as a count of ten-thousandths (nearest, ties to even)
round4(x) ==
  LET n == x[1] * 10000
      q == n \div x[2]
      r == n % x[2]
  IN  IF 2 * r < x[2] THEN q
      ELSE IF 2 * r > x[2] THEN q + 1
      ELSE IF q % 2 = 0 THEN q ELSE q + 1

\* line 93: y_experimental.max() if y_experimental.max() > y_control.max()
\* else y_control.max(); a comparison with nan is False
ymax_of(ye, yc) == IF ye = "nan" \/ yc = "nan" THEN yc ELSE "finite"

\* variant: the new figure is not made current when one already is
subplots_current_stale(cur, new) == IF cur = 0 THEN new ELSE cur

\* plt.subplots makes the figure it creates the current figure
subplots_current(cur, new) == new

\* one plotting call: the function called, the figure it lands on, the
\* distribution, what it draws, the probability or rate it is placed at, the
\* kind of the value there, the where-relation, the style, the text
Op(fn, f, dist, what, p, v, rel, style, text) ==
  [fn |-> fn, fig |-> f, dist |-> dist, what |-> what, p |-> p, v |-> v,
   rel |-> rel, style |-> style, text |-> text]

\* ------------------------------------------------------------------ state
Init ==
  /\ pc = "idle"
  /\ control = <<>> /\ experimental = <<>> /\ alpha = Zero /\ tails = 0
  /\ control_trials = 0 /\ experimental_trials = 0
  /\ control_cvr = NaN /\ experimental_cvr = NaN
  /\ population_std = NaN /\ experimental_std = NaN
  /\ ymax = "none"
  /\ fig = 0
  /\ ops = <<>>
  /\ err = "none"
  /\ figures = <<>>
  /\ current = 0
  /\ ncalls = 0

ClearLocals ==
  /\ control_trials' = 0 /\ experimental_trials' = 0
  /\ control_cvr' = NaN /\ experimental_cvr' = NaN
  /\ population_std' = NaN /\ experimental_std' = NaN
  /\ ymax' = "none"
  /\ fig' = 0
  /\ ops' = <<>>
  /\ err' = "none"

\* A call site calls plot_cvr_distributions(control, experimental, alpha, tails).
\* (line 8)
Call ==
  /\ pc = "idle"
  /\ ncalls < MaxCalls
  /\ \E c \in Samples, e \in Samples, a \in Alphas, t \in Tails :
       /\ control' = c /\ experimental' = e /\ alpha' = a /\ tails' = t
  /\ ncalls' = ncalls + 1
  /\ pc' = "compute"
  /\ ClearLocals
  /\ UNCHANGED pyplot

Raise(e) == err' = e /\ pc' = "raised"

\* lines 23-39: trials, rates, standard deviations, grids and densities.
\* The first thing that can raise is 1 / control_trials on line 31.
Compute ==
  /\ pc = "compute"
  /\ LET nc == Len(control)
         ne == Len(experimental)
         cc == mean(control)
         ce == mean(experimental)
     IN  /\ control_trials' = nc
         /\ experimental_trials' = ne
         /\ control_cvr' = cc
         /\ experimental_cvr' = ce
         /\ IF ZeroDivision(nc) \/ ZeroDivision(ne)
            THEN /\ Raise("ZeroDivisionError")
                 /\ UNCHANGED <<population_std, experimental_std>>
            ELSE /\ population_std' = population_var(nc, ne, cc, ce)
                 /\ experimental_std' = experimental_var(nc, ne, cc, ce)
                 /\ pc' = "create"
                 /\ err' = "none"
  /\ UNCHANGED <<args, ymax, fig, ops, pyplot, ncalls>>

\* lines 42-48: plt.subplots creates a figure, registers it with pyplot and
\* makes it current; the two density curves are drawn on its axes.
CreatePlot ==
  /\ pc = "create"
  /\ LET new == Len(figures) + 1
     IN  /\ figures' = Append(figures, [creator |-> ncalls, plt |-> {},
                                        shown |-> FALSE, open |-> TRUE])
         /\ current' = subplots_current(current, new)
         /\ fig' = new
         /\ ops' = ops \o
              << Op("ax.plot", new, "control", "curve", Zero, "none", "none", "solid", -1),
                 Op("ax.plot", new, "experimental", "curve", Zero, "none", "none", "solid", -1) >>
  /\ pc' = "tails"
  /\ UNCHANGED <<args, stats, ymax, err, ncalls>>

\* lines 50-89: the shaded tail(s) of the control curve and the dashed line at
\* each critical value; every critical value is a ppf of N(control_cvr,
\* population_std).
Half(a) == <<a[1], 2 * a[2]>>
TailOps ==
  LET upper2 == RSub(One, Half(alpha))
      lower2 == Half(alpha)
      upper1 == RSub(One, alpha)
      Fill(q, rel) == Op("ax.fill_between", fig, "control", "tail", q,
                         ppf(q, population_std), rel, "shade", -1)
      Line(q) == Op("ax.vlines", fig, "control", "critical", q,
                    ppf(q, population_std), "none", "--", -1)
  IN  IF IsTwoTailed(tails)
      THEN << Fill(upper2, "ge"), Line(upper2), Fill(lower2, "le"), Line(lower2) >>
      ELSE << Fill(upper1, "ge"), Line(upper1) >>

\* the plotting calls made before the first one whose argument raised
RECURSIVE Completed(_)
Completed(s) ==
  IF s = <<>> \/ Head(s).v = "DomainError" THEN <<>>
  ELSE <<Head(s)>> \o Completed(Tail(s))

DrawTails ==
  /\ pc = "tails"
  /\ ops' = ops \o Completed(TailOps)
  /\ IF Completed(TailOps) # TailOps
     THEN Raise("DomainError")
     ELSE pc' = "ylim" /\ err' = "none"
  /\ UNCHANGED <<args, stats, ymax, fig, pyplot, ncalls>>

\* lines 93-94: ax.set(ylim=...) raises ValueError when a limit is NaN
SetYLim ==
  /\ pc = "ylim"
  /\ ymax' = ymax_of(pdf_max(experimental_std), pdf_max(population_std))
  /\ IF ymax' = "nan"
     THEN Raise("ValueError") /\ UNCHANGED ops
     ELSE /\ ops' = Append(ops, Op("ax.set", fig, "none", "ylim", Zero, "finite",
                                   "none", "none", -1))
          /\ pc' = "hline" /\ err' = "none"
  /\ UNCHANGED <<args, stats, fig, pyplot, ncalls>>

\* lines 97-101: the baseline y == 0 across both grids
HLine ==
  /\ pc = "hline"
  /\ ops' = Append(ops, Op("ax.hlines", fig, "none", "baseline", Zero, "finite",
                           "none", "solid", -1))
  /\ pc' = "ann_e"
  /\ UNCHANGED <<args, stats, ymax, fig, err, pyplot, ncalls>>

\* a dashed line on the call's axes, then a point and a label drawn through
\* pyplot, which draws on the current figure
Annotate(dist, cvr, sd) ==
  /\ ops' = ops \o
       << Op("ax.vlines", fig, dist, "mean", cvr, pdf_max(sd), "none", "--", -1),
          Op("plt.plot", current, dist, "mean", cvr, "finite", "none", "o", -1),
          Op("plt.annotate", current, dist, "mean", cvr, "finite", "none", "none",
             round4(cvr)) >>
  /\ figures' = [figures EXCEPT ![current].plt = @ \cup {ncalls}]
  /\ UNCHANGED current

\* lines 104-116
AnnotateExperimental ==
  /\ pc = "ann_e"
  /\ Annotate("experimental", experimental_cvr, experimental_std)
  /\ pc' = "ann_c"
  /\ UNCHANGED <<args, stats, ymax, fig, err, ncalls>>

\* lines 119-131
AnnotateControl ==
  /\ pc = "ann_c"
  /\ Annotate("control", control_cvr, population_std)
  /\ pc' = "finish"
  /\ UNCHANGED <<args, stats, ymax, fig, err, ncalls>>

\* lines 133-137: legend, title, hidden axes, plt.show().  show() displays
\* every open figure; whether the figures are closed when it returns depends
\* on the backend (closed by a GUI or inline backend, kept by a
\* non-interactive one).
Finish ==
  /\ pc = "finish"
  /\ ops' = ops \o
       << Op("ax.legend", fig, "none", "legend", Zero, "none", "none", "none", -1),
          Op("ax.set_title", fig, "none", "title", Zero, "none", "none", "none", -1),
          Op("yaxis.set_visible", fig, "none", "axis", Zero, "none", "none", "none", -1),
          Op("xaxis.set_visible", fig, "none", "axis", Zero, "none", "none", "none", -1),
          Op("plt.show", current, "none", "show", Zero, "none", "none", "none", -1) >>
  /\ \E close \in BOOLEAN :
       /\ figures' = [i \in 1..Len(figures) |->
                        IF figures[i].open
                        THEN [figures[i] EXCEPT !.shown = TRUE, !.open = ~close]
                        ELSE figures[i]]
       /\ current' = IF close THEN 0 ELSE current
  /\ pc' = "returned"
  /\ UNCHANGED <<args, stats, ymax, fig, err, ncalls>>

\* the call is over (it returned None, or its exception reached the caller);
\* its locals are gone, pyplot's state stays
Return ==
  /\ pc \in {"returned", "raised"}
  /\ pc' = "idle"
  /\ control' = <<>> /\ experimental' = <<>> /\ alpha' = Zero /\ tails' = 0
  /\ ClearLocals
  /\ UNCHANGED <<pyplot, ncalls>>

Next ==
  \/ Call
  \/ Compute
  \/ CreatePlot
  \/ DrawTails
  \/ SetYLim
  \/ HLine
  \/ AnnotateExperimental
  \/ AnnotateControl
  \/ Finish
  \/ Return

Spec == Init /\ [][Next]_vars

\* ----------------------------------------------------------------- claims
InCall == pc # "idle"
EmptyInput == Len(control) = 0 \/ Len(experimental) = 0
AlphaValid == RLt(Zero, alpha) /\ RLt(alpha, One)
Computed == pc \notin {"idle", "compute"} /\ err # "ZeroDivisionError"
PastTails == pc \in {"ylim", "hline", "ann_e", "ann_c", "finish", "returned"}
                \/ (pc = "raised" /\ err = "ValueError")
AllSame(s) == Len(s) > 0 /\ \A i \in 1..Len(s) : s[i] = s[1]
OpsWhere(P(_)) == {i \in 1..Len(ops) : P(ops[i])}
\* the probability of op o is num / den
AtProb(o, num, den) == o.p[1] * den = num * o.p[2]

\* C1: a call with non-empty 0/1 samples (all-zero and all-one included) and
\* alpha strictly between 0 and 1 raises no error.
C1_ChartProduced ==
  (InCall /\ ~EmptyInput /\ AlphaValid) => pc # "raised"

\* C2 as stated: a call with an empty sample fails with EmptySampleError.
C2_EmptySampleError ==
  (pc = "raised" /\ EmptyInput) => err = "EmptySampleError"

\* C2 amended: a call with an empty sample fails with ZeroDivisionError, raised
\* by the division by the sample's length, and with no other error.
C2_ZeroDivisionError ==
  (EmptyInput /\ pc \notin {"idle", "compute"})
     => (pc = "raised" /\ err = "ZeroDivisionError")

C2_Witness ==
  pc = "raised" /\ Len(control) > 0 /\ Len(experimental) = 0

\* C3: a call with an empty sample makes no plotting call: it creates no
\* figure and runs no drawing or display step.
C3_NoPlottingOnEmpty ==
  (InCall /\ EmptyInput)
     => /\ ops = <<>>
        /\ fig = 0
        /\ \A i \in 1..Len(figures) : figures[i].creator # ncalls

C3_Witness ==
  pc = "raised" /\ Len(control) = 0 /\ Len(figures) > 0

\* C4 as stated: with alpha outside (0, 1) the call fails with DomainError
\* where the critical values are computed, in either branch.
C4_DomainError ==
  (~EmptyInput /\ ~AlphaValid /\ pc \notin {"idle", "compute", "create", "tails"})
     => (pc = "raised" /\ err = "DomainError")

\* C4 amended: with alpha outside (0, 1) the critical-value step raises
\* nothing in either branch: every tail and critical line is drawn, at a value
\* that is -inf for probability 0, +inf for probability 1, NaN for a
\* probability outside [0, 1] and finite otherwise, and the call goes on to
\* the y-limit step.
C4_NoDomainError ==
  (~EmptyInput /\ ~AlphaValid /\ pc \notin {"idle", "compute", "create", "tails"})
     => /\ PastTails
        /\ err # "DomainError"
        /\ Cardinality(OpsWhere(LAMBDA o : o.what \in {"tail", "critical"}))
             = IF tails = 2 THEN 4 ELSE 2
        /\ \A i \in OpsWhere(LAMBDA o : o.what \in {"tail", "critical"}) :
             LET o == ops[i] IN
             /\ o.v \in {"-inf", "inf", "nan", "finite"}
             /\ (o.p[1] < 0 \/ o.p[1] > o.p[2]) => o.v = "nan"
             /\ (o.p[1] = 0 /\ population_std[1] > 0) => o.v = "-inf"
             /\ (o.p[1] = o.p[2] /\ population_std[1] > 0) => o.v = "inf"
             /\ o.v = "finite" => tails = 2

C4_Witness ==
  /\ pc = "returned"
  /\ REq(alpha, Zero)
  /\ tails = 2
  /\ \E i \in 1..Len(ops) : ops[i].v = "-inf"

\* C5: a call that ends in an error has created no figure and applied no
\* drawing step.
C5_NoPartialResults ==
  pc = "raised" => (fig = 0 /\ ops = <<>>)

\* C6: the critical values are quantiles of the control distribution only;
\* tails == 2 uses exactly two, alpha/2 (shaded where x <= it) and 1 - alpha/2
\* (shaded where x >= it); any other tails uses exactly one, 1 - alpha (shaded
\* where x >= it), and shades no lower tail.
C6_CriticalValues ==
  PastTails =>
    LET fills == OpsWhere(LAMBDA o : o.what = "tail")
        lines == OpsWhere(LAMBDA o : o.what = "critical")
        an == alpha[1]
        ad == alpha[2]
    IN  /\ \A i \in fills \cup lines : ops[i].dist = "control" /\ ops[i].fig = fig
        /\ \A i \in fills : ops[i].fn = "ax.fill_between"
        /\ \A i \in lines : ops[i].fn = "ax.vlines"
        /\ IF tails = 2
           THEN /\ Cardinality(fills) = 2 /\ Cardinality(lines) = 2
                /\ \E i \in fills : ops[i].rel = "le" /\ AtProb(ops[i], an, 2 * ad)
                /\ \E i \in fills : ops[i].rel = "ge" /\ AtProb(ops[i], 2 * ad - an, 2 * ad)
                /\ \E i \in lines : AtProb(ops[i], an, 2 * ad)
                /\ \E i \in lines : AtProb(ops[i], 2 * ad - an, 2 * ad)
           ELSE /\ Cardinality(fills) = 1 /\ Cardinality(lines) = 1
                /\ \A i \in fills : ops[i].rel = "ge" /\ AtProb(ops[i], ad - an, ad)
                /\ \A i \in lines : AtProb(ops[i], ad - an, ad)

C6_Witness ==
  pc = "returned" /\ tails = 3 /\ REq(alpha, <<1, 20>>)

\* C7: a non-empty sample of only 0s or only 1s has a rate of exactly 0 or
\* exactly 1, and the standard error computed from that arm's rate is exactly 0.
C7_DegenerateSample ==
  /\ (pc \notin {"idle", "compute"} /\ AllSame(control))
       => /\ control_cvr[2] # 0
          /\ control_cvr[1] = (IF control[1] = 1 THEN control_cvr[2] ELSE 0)
  /\ (pc \notin {"idle", "compute"} /\ AllSame(experimental))
       => /\ experimental_cvr[2] # 0
          /\ experimental_cvr[1] = (IF experimental[1] = 1 THEN experimental_cvr[2] ELSE 0)
  /\ (Computed /\ AllSame(control))
       => (population_std[1] = 0 /\ population_std[2] # 0)
  /\ (Computed /\ AllSame(experimental))
       => (experimental_std[1] = 0 /\ experimental_std[2] # 0)

C7_Witness ==
  /\ pc = "create"
  /\ control = <<1, 1, 1>>
  /\ ~AllSame(experimental) /\ Len(experimental) > 0

\* C8: se_c^2 = (1/n_c + 1/n_e) * rate_c * (1 - rate_c) depends on the
\* experimental sample only through its length; se_e^2 = (1/n_e) * rate_e *
\* (1 - rate_e) does not depend on the control sample.
C8_AsymmetricErrors ==
  Computed =>
    LET nc == Len(control)
        ne == Len(experimental)
        kc == Sum(control)
        ke == Sum(experimental)
    IN  /\ REq(population_std, <<(nc + ne) * kc * (nc - kc), nc * ne * nc * nc>>)
        /\ REq(experimental_std, <<ke * (ne - ke), ne * ne * ne>>)
        /\ \A e2 \in Samples :
             Len(e2) = ne =>
               REq(population_var(nc, Len(e2), mean(control), mean(e2)), population_std)
        /\ \A c2 \in Samples :
             Len(c2) > 0 =>
               REq(experimental_var(Len(c2), ne, mean(c2), mean(experimental)),
                   experimental_std)

C8_Witness ==
  /\ pc = "create"
  /\ Len(control) # Len(experimental)
  /\ population_std[1] > 0 /\ experimental_std[1] > 0

\* C9 as stated: in a successful call every critical boundary gets a dashed
\* vertical marker and a value label, and every arm's mean gets a point and an
\* annotation of the rate rounded to 4 decimal places.
Nearest4(t, x) ==
  LET d == x[1] * 10000 - t * x[2] IN 2 * (IF d < 0 THEN -d ELSE d) <= x[2]
MeanMarked(dist, cvr) ==
  /\ \E i \in 1..Len(ops) :
       /\ ops[i].fn = "plt.plot" /\ ops[i].dist = dist /\ ops[i].style = "o"
       /\ REq(ops[i].p, cvr)
  /\ \E i \in 1..Len(ops) :
       /\ ops[i].fn = "plt.annotate" /\ ops[i].dist = dist
       /\ REq(ops[i].p, cvr) /\ Nearest4(ops[i].text, cvr)
CriticalDashed ==
  LET lines == OpsWhere(LAMBDA o : o.what = "critical")
  IN  /\ Cardinality(lines) = IF tails = 2 THEN 2 ELSE 1
      /\ \A i \in lines : ops[i].fn = "ax.vlines" /\ ops[i].style = "--"
C9_MarkerAndLabel ==
  pc = "returned" =>
    /\ CriticalDashed
    /\ \A i \in OpsWhere(LAMBDA o : o.what = "critical") :
         \E j \in 1..Len(ops) :
           /\ ops[j].fn = "plt.annotate" /\ ops[j].what = "critical"
           /\ REq(ops[j].p, ops[i].p)
    /\ MeanMarked("control", control_cvr)
    /\ MeanMarked("experimental", experimental_cvr)

\* C9 amended: in a successful call every critical boundary (two when
\* tails == 2, one otherwise) gets a dashed vertical marker and no value label;
\* every arm's mean gets a point and an annotation of the rate rounded to 4
\* decimal places, and these two annotations are the only text labels.
C9_MarkerNoLabel ==
  pc = "returned" =>
    /\ CriticalDashed
    /\ \A j \in 1..Len(ops) : ops[j].fn = "plt.annotate" => ops[j].what = "mean"
    /\ Cardinality(OpsWhere(LAMBDA o : o.fn = "plt.annotate")) = 2
    /\ MeanMarked("control", control_cvr)
    /\ MeanMarked("experimental", experimental_cvr)

C9_Witness ==
  /\ pc = "returned"
  /\ tails = 2
  /\ REq(control_cvr, <<2, 3>>)
  /\ \E i \in 1..Len(ops) : ops[i].fn = "plt.annotate" /\ ops[i].text = 6667

\* C10: the points and labels a call draws through pyplot's current figure
\* land on the figure that call created, never on a figure of an earlier
\* call, also when an earlier call failed after creating its figure.
C10_OwnFigure ==
  /\ \A i \in 1..Len(figures) : figures[i].plt \subseteq {figures[i].creator}
  /\ \A j \in 1..Len(ops) :
       ops[j].fn \in {"plt.plot", "plt.annotate"}
          => (ops[j].fig = fig /\ fig # 0 /\ figures[fig].creator = ncalls)

C10_Witness ==
  /\ pc = "finish"
  /\ Len(figures) = 2
  /\ ~figures[1].shown
  /\ figures[2].plt = {2}

====
